---- MODULE Spec2Model ----
(***************************************************************************)
(* Model of the queue benchmark in src/exp/rust/src/main.rs: main parses   *)
(* the options -i and -b, prints one status line, fills a VecDeque with    *)
(* buffer_size boxed Requests and then, num_iterations times, pops the     *)
(* head and pushes a new Request.                                          *)
(*                                                                         *)
(* Text (String, &str) is a sequence of one-character strings.  A Box is   *)
(* an address into heap, which keeps for every allocation made its Request *)
(* and whether it is still alive.                                          *)
(***************************************************************************)
EXTENDS Integers, Sequences, FiniteSets, TLC

VARIABLES
  args,            \* line 18: the process's argument vector, args[1] the program name
  pc,              \* the line main is about to execute, "panicked" or "done"
  matches,         \* line 23: the getopts Matches once parsed: the options' values
  num_iterations,  \* line 28 (0 until it is bound)
  buffer_size,     \* line 32 (0 until it is bound)
  stdout,          \* the lines written to standard output
  stderr,          \* the panic messages written to standard error
  exit_code,       \* Some(status) once the process has ended, else None
  requests,        \* line 38: the VecDeque<Box<Request>>, head first (empty outside its scope)
  request,         \* the local `request` of the loop body (lines 40 and 45)
  i,               \* the loop variable of the running for loop (0 outside the loops)
  heap,            \* the Request allocations made: address -> [alive, obj]
  allocs,          \* number of Requests constructed so far (the last address given)
  dropped          \* the num of every Request destroyed so far, in order

vars == <<args, pc, matches, num_iterations, buffer_size, stdout, stderr,
          exit_code, requests, request, i, heap, allocs, dropped>>

----------------------------------------------------------------------------
(* Bounds of the model *)

\* the largest option value tried that the loops actually run
MaxN == 3

\* the longest argument list tried (without the program name)
MaxArgs == 4

----------------------------------------------------------------------------
(* Program constants *)

\* i32::MAX, the range of parse::<i32>; i32::MIN is -I32_MAX - 1
I32_MAX == 2147483647

\* String::with_capacity(1000000)
STRING_CAPACITY == 1000000

\* the exit status of a Rust process whose main thread panicked
PANIC_EXIT == 101

\* the exit status when main returns
SUCCESS_EXIT == 0

None == [tag |-> "None"]

Some(v) == [tag |-> "Some", val |-> v]

Ok(v) == [tag |-> "Ok", val |-> v]

Err(e) == [tag |-> "Err", err |-> e]

----------------------------------------------------------------------------
(* Text.  A recursive operator hands its accumulator on through a one-element
   set ({f(v) : v \in {e}}), which fixes the value of e before the call. *)

Digits == <<"0", "1", "2", "3", "4", "5", "6", "7", "8", "9">>

IsDigit(c) == \E d \in 1..10 : Digits[d] = c

DigitValue(c) == (CHOOSE d \in 1..10 : Digits[d] = c) - 1

RECURSIVE fmt_unsigned(_)
\* the decimal digits of n >= 0, most significant first
fmt_unsigned(n) ==
  IF n < 10 THEN <<Digits[n + 1]>>
  ELSE CHOOSE text \in {fmt_unsigned(q) \o <<Digits[(n % 10) + 1]>> : q \in {n \div 10}} : TRUE

RECURSIVE fmt_magnitude(_)
\* the decimal digits of the magnitude of n < 0, taken from n itself since
\* the magnitude of i32::MIN is no i32
fmt_magnitude(n) ==
  LET d == (10 - (n % 10)) % 10
      q == (n + d) \div 10
  IN IF q = 0 THEN <<Digits[d + 1]>>
     ELSE CHOOSE text \in {fmt_magnitude(v) \o <<Digits[d + 1]>> : v \in {q}} : TRUE

\* {:?} of an i32: a minus sign for a negative value, then the decimal digits
fmt_i32(n) ==
  IF n < 0 THEN <<"-">> \o fmt_magnitude(n) ELSE fmt_unsigned(n)

\* i32::MIN
I32_MIN == 0 - I32_MAX - 1

\* acc.checked_mul(10): None when the product leaves the i32 range
checked_mul10(acc) ==
  IF acc > I32_MAX \div 10 \/ acc < 0 - (I32_MAX \div 10) THEN None
  ELSE Some(acc * 10)

\* acc.checked_add(x), 0 <= x <= 9
checked_add(acc, x) == IF acc > I32_MAX - x THEN None ELSE Some(acc + x)

\* acc.checked_sub(x), 0 <= x <= 9
checked_sub(acc, x) == IF acc < I32_MIN + x THEN None ELSE Some(acc - x)

RECURSIVE parse_digits(_, _, _)
\* str::parse's digit loop: acc * 10 + digit for a positive number and
\* acc * 10 - digit for a negative one, in checked i32 arithmetic
parse_digits(digits, acc, is_positive) ==
  IF digits = <<>> THEN Ok(acc)
  ELSE IF ~IsDigit(Head(digits)) THEN Err("InvalidDigit")
  ELSE LET x == DigitValue(Head(digits))
           m == checked_mul10(acc)
           kind == IF is_positive THEN "Overflow" ELSE "Underflow"
       IN IF m.tag = "None" THEN Err(kind)
          ELSE LET next == IF is_positive THEN checked_add(m.val, x)
                           ELSE checked_sub(m.val, x)
               IN IF next.tag = "None" THEN Err(kind)
                  ELSE CHOOSE r \in {parse_digits(Tail(digits), v, is_positive) :
                                       v \in {next.val}} : TRUE

\* the conversion with unwrap_or(0): text that is no i32 counts as 0
parse_or_zero(s) ==
  LET is_positive == s = <<>> \/ Head(s) # "-"
      digits == IF is_positive THEN s ELSE Tail(s)
      r == IF digits = <<>> THEN Err("Empty")
           ELSE parse_digits(digits, 0, is_positive)
  IN IF r.tag = "Err" THEN Ok(0) ELSE r

\* s.parse::<i32>(): an optional minus sign, then one or more decimal digits
\* whose value fits an i32 (no input tried starts with a plus sign, which
\* later versions of the standard library accept)
parse_i32(s) ==
  IF s = <<>> THEN Err("Empty")
  ELSE LET is_positive == Head(s) # "-"
           digits == IF is_positive THEN s ELSE Tail(s)
       IN IF digits = <<>> THEN Err("Empty")
          ELSE parse_digits(digits, 0, is_positive)

----------------------------------------------------------------------------
(* Option parsing: opts.reqopt("i", ...), opts.reqopt("b", ...), opts.parse *)

\* the short names declared by the two reqopt calls; both take a value and
\* both are required
OptNames == {"i", "b"}

\* is_arg: a token of more than one character that starts with '-'
is_arg(cur) == Len(cur) > 1 /\ Head(cur) = "-"

NoVals == [nm \in OptNames |-> <<>>]

RECURSIVE scan_args(_, _, _)
\* the scan of opts.parse over the tokens left: a token that is no option is
\* a free argument, "--" ends the options, and -i / -b take the rest of their
\* token as value or, when the token ends there, the next token whatever it is
scan_args(left, vals, free) ==
  IF left = <<>> THEN Ok([vals |-> vals, free |-> free])
  ELSE LET cur == Head(left)
       IN IF ~is_arg(cur) THEN scan_args(Tail(left), vals, Append(free, cur))
          ELSE IF cur = <<"-", "-">>
                 THEN Ok([vals |-> vals, free |-> free \o Tail(left)])
          ELSE IF cur[2] \notin OptNames THEN Err("UnrecognizedOption")
          ELSE IF Len(cur) > 2
                 THEN scan_args(Tail(left),
                        [vals EXCEPT ![cur[2]] = Append(@, SubSeq(cur, 3, Len(cur)))],
                        free)
          ELSE IF Len(left) = 1 THEN Err("ArgumentMissing")
          ELSE scan_args(Tail(Tail(left)),
                 [vals EXCEPT ![cur[2]] = Append(@, left[2])], free)

\* the options declared with optopt: neither is required
opts_parse_optional(a) ==
  LET scanned == scan_args(a, NoVals, <<>>)
  IN IF scanned.tag = "Err" THEN scanned
     ELSE IF \E nm \in OptNames : Len(scanned.val.vals[nm]) > 1
            THEN Err("OptionDuplicated")
     ELSE scanned

\* opts.parse(&args[1..]): the scan, then every required option must have
\* been given, and given once
opts_parse(a) ==
  LET scanned == scan_args(a, NoVals, <<>>)
  IN IF scanned.tag = "Err" THEN scanned
     ELSE IF \E nm \in OptNames : Len(scanned.val.vals[nm]) = 0
            THEN Err("OptionMissing")
     ELSE IF \E nm \in OptNames : Len(scanned.val.vals[nm]) > 1
            THEN Err("OptionDuplicated")
     ELSE scanned

\* matches.opt_str(nm): the first value given for the option, if any
opt_str(m, nm) == IF m.vals[nm] = <<>> THEN None ELSE Some(m.vals[nm][1])

\* &args[1..]: the arguments without the program name
user_args(a) == SubSeq(a, 2, Len(a))

----------------------------------------------------------------------------
(* Request and the queue *)

\* Request::new(n): num is n, s an empty String of reserved capacity
Request_new(n) == [num |-> n, s |-> [buf |-> <<>>, capacity |-> STRING_CAPACITY]]

\* VecDeque::new()
VecDeque_new == <<>>

\* a push at the wrong end: b becomes the head
push_front(q, b) == <<b>> \o q

\* requests.push_back(b): b becomes the tail
push_back(q, b) == Append(q, b)

\* a pop that returns the head and leaves it in the queue
pop_front_keep(q) ==
  IF q = <<>> THEN [item |-> None, queue |-> q]
  ELSE [item |-> Some(Head(q)), queue |-> q]

\* a pop at the wrong end: the tail, and the queue without it
pop_back(q) ==
  IF q = <<>> THEN [item |-> None, queue |-> q]
  ELSE [item |-> Some(q[Len(q)]), queue |-> SubSeq(q, 1, Len(q) - 1)]

\* requests.pop_front(): the head, if any, and the queue without it
pop_front(q) ==
  IF q = <<>> THEN [item |-> None, queue |-> q]
  ELSE [item |-> Some(Head(q)), queue |-> Tail(q)]

\* the inclusive range 0...n
range_has_inclusive(k, n) == k <= n

\* a loop that tests after its body: the body runs at least once
range_has_do_while(k, n) == k = 0 \/ k < n

\* whether the iterator of the range 0..n yields the value k
range_has(k, n) == k < n

\* the num values of the queued Requests, head first
Nums(q) == [k \in 1..Len(q) |-> heap[q[k]].obj.num]

----------------------------------------------------------------------------
(* The text main writes *)

StatusLabel1 == <<"n", "u", "m", "_", "i", "n", "t", "e", "r", "a", "t", "i", "o", "n", "s", "=">>

StatusLabel2 == <<",", " ", "b", "u", "f", "f", "e", "r", "_", "s", "i", "z", "e", "=">>

\* the line of println!("num_interations={:?}, buffer_size={:?}", ...)
status_line(ni, bs) == StatusLabel1 \o fmt_i32(ni) \o StatusLabel2 \o fmt_i32(bs)

----------------------------------------------------------------------------
(* Inputs *)

ProgramName == <<"b", "e", "n", "c", "h">>

\* the numeral of i32::MAX + 1
AboveI32 == <<"2", "1", "4", "7", "4", "8", "3", "6", "4", "8">>

\* values given to the options: small integers the loops run to the end,
\* a numeral with a leading zero, text that is no number, and the two
\* numerals just inside and just outside the i32 range
Values ==
  {fmt_i32(n) : n \in -1..MaxN}
    \cup { <<"0", "1">>,
           <<"a", "b", "c">>,
           <<"-">> \o AboveI32,
           AboveI32 }

Tokens == { <<"-", "i">>, <<"-", "b">> } \cup Values

ArgLists == UNION { [1..n -> Tokens] : n \in 0..MaxArgs }

----------------------------------------------------------------------------
(* main, one action per statement *)

Init ==
  /\ args \in { <<ProgramName>> \o a : a \in ArgLists }
  /\ pc = "l23"
  /\ matches = None
  /\ num_iterations = 0
  /\ buffer_size = 0
  /\ stdout = <<>>
  /\ stderr = <<>>
  /\ exit_code = None
  /\ requests = <<>>
  /\ request = None
  /\ i = 0
  /\ heap = <<>>
  /\ allocs = 0
  /\ dropped = <<>>

\* panic!(msg): the message goes to standard error and the process ends
\* with the panic status; nothing is written to standard output
Panic(msg) ==
  /\ pc' = "panicked"
  /\ stderr' = Append(stderr, msg)
  /\ exit_code' = Some(PANIC_EXIT)

\* Box::new(Request::new(n)): a fresh allocation holding the Request
BoxNew(n) ==
  [addr |-> allocs + 1,
   heap |-> Append(heap, [alive |-> TRUE, obj |-> Request_new(n)])]

\* the heap with the allocations in gone destroyed (addresses are never
\* reused)
Free(h, gone) ==
  [a \in DOMAIN h |-> IF a \in gone THEN [h[a] EXCEPT !.alive = FALSE] ELSE h[a]]

\* the addresses of the Requests alive
Live == {a \in DOMAIN heap : heap[a].alive}

\* lines 20-26: declare the options, parse args[1..], panic on Err
Line23 ==
  /\ pc = "l23"
  /\ LET r == opts_parse(user_args(args))
     IN IF r.tag = "Ok"
          THEN /\ matches' = Some(r.val)
               /\ pc' = "l28"
               /\ UNCHANGED <<stderr, exit_code>>
          ELSE /\ Panic(r.err)
               /\ UNCHANGED matches
  /\ UNCHANGED <<args, num_iterations, buffer_size, stdout, requests, request,
                 i, heap, allocs, dropped>>

\* lines 28-31 and 32-35: the option's text parsed as i32; unwrap panics on
\* Err, and an option without text panics with "Parse error"
ParsedOpt(nm) ==
  LET o == opt_str(matches.val, nm)
  IN IF o.tag = "None" THEN Err("Parse error") ELSE parse_i32(o.val)

Line28 ==
  /\ pc = "l28"
  /\ LET r == ParsedOpt("i")
     IN IF r.tag = "Ok"
          THEN /\ num_iterations' = r.val
               /\ pc' = "l32"
               /\ UNCHANGED <<stderr, exit_code>>
          ELSE /\ Panic(r.err)
               /\ UNCHANGED num_iterations
  /\ UNCHANGED <<args, matches, buffer_size, stdout, requests, request, i,
                 heap, allocs, dropped>>

Line32 ==
  /\ pc = "l32"
  /\ LET r == ParsedOpt("b")
     IN IF r.tag = "Ok"
          THEN /\ buffer_size' = r.val
               /\ pc' = "l36"
               /\ UNCHANGED <<stderr, exit_code>>
          ELSE /\ Panic(r.err)
               /\ UNCHANGED buffer_size
  /\ UNCHANGED <<args, matches, num_iterations, stdout, requests, request, i,
                 heap, allocs, dropped>>

\* line 36: println! of the two values
Line36 ==
  /\ pc = "l36"
  /\ stdout' = Append(stdout, status_line(num_iterations, buffer_size))
  /\ pc' = "l38"
  /\ UNCHANGED <<args, matches, num_iterations, buffer_size, stderr,
                 exit_code, requests, request, i, heap, allocs, dropped>>

\* line 38: the empty queue; the fill loop's range starts at 0
Line38 ==
  /\ pc = "l38"
  /\ requests' = VecDeque_new
  /\ i' = 0
  /\ pc' = "l39"
  /\ UNCHANGED <<args, matches, num_iterations, buffer_size, stdout, stderr,
                 exit_code, request, heap, allocs, dropped>>

\* line 39: for i in 0..buffer_size; when the range is exhausted the churn
\* loop's range starts at 0
Line39 ==
  /\ pc = "l39"
  /\ IF range_has(i, buffer_size)
       THEN pc' = "l40" /\ i' = i
       ELSE pc' = "l44" /\ i' = 0
  /\ UNCHANGED <<args, matches, num_iterations, buffer_size, stdout, stderr,
                 exit_code, requests, request, heap, allocs, dropped>>

\* line 40: let mut request = Box::new(Request::new(i))
Line40 ==
  /\ pc = "l40"
  /\ LET b == BoxNew(i)
     IN /\ request' = Some(b.addr)
        /\ heap' = b.heap
        /\ allocs' = b.addr
  /\ pc' = "l41"
  /\ UNCHANGED <<args, matches, num_iterations, buffer_size, stdout, stderr,
                 exit_code, requests, i, dropped>>

\* line 41: requests.push_back(request) moves the box into the queue; the
\* body ends with nothing left to drop
Line41 ==
  /\ pc = "l41"
  /\ requests' = push_back(requests, request.val)
  /\ request' = None
  /\ i' = i + 1
  /\ pc' = "l39"
  /\ UNCHANGED <<args, matches, num_iterations, buffer_size, stdout, stderr,
                 exit_code, heap, allocs, dropped>>

\* line 44: for i in 0..num_iterations
Line44 ==
  /\ pc = "l44"
  /\ pc' = IF range_has(i, num_iterations) THEN "l45" ELSE "l48"
  /\ UNCHANGED <<args, matches, num_iterations, buffer_size, stdout, stderr,
                 exit_code, requests, request, i, heap, allocs, dropped>>

\* line 45: let request = requests.pop_front(); the Option is bound to the
\* local, which lives to the end of the body
Line45 ==
  /\ pc = "l45"
  /\ LET r == pop_front(requests)
     IN /\ request' = r.item
        /\ requests' = r.queue
  /\ pc' = "l46"
  /\ UNCHANGED <<args, matches, num_iterations, buffer_size, stdout, stderr,
                 exit_code, i, heap, allocs, dropped>>

\* line 46: requests.push_back(Box::new(Request::new(i)))
Line46 ==
  /\ pc = "l46"
  /\ LET b == BoxNew(i)
     IN /\ heap' = b.heap
        /\ allocs' = b.addr
        /\ requests' = push_back(requests, b.addr)
  /\ pc' = "l47"
  /\ UNCHANGED <<args, matches, num_iterations, buffer_size, stdout, stderr,
                 exit_code, request, i, dropped>>

\* a body that forgets its local: nothing is dropped
scope_end_forgets(r) == <<>>

\* what the end of the churn body drops: the local request, if it holds a box
scope_end_drops(r) == IF r.tag = "Some" THEN <<r.val>> ELSE <<>>

\* line 47: the body's closing brace drops the local request
Line47 ==
  /\ pc = "l47"
  /\ LET gone == scope_end_drops(request)
     IN /\ heap' = Free(heap, {gone[k] : k \in DOMAIN gone})
        /\ dropped' = dropped \o [k \in DOMAIN gone |-> heap[gone[k]].obj.num]
  /\ request' = None
  /\ i' = i + 1
  /\ pc' = "l44"
  /\ UNCHANGED <<args, matches, num_iterations, buffer_size, stdout, stderr,
                 exit_code, requests, allocs>>

\* line 48: main returns; the queue is dropped with the Requests it holds,
\* head first, and the process ends normally
Line48 ==
  /\ pc = "l48"
  /\ heap' = Free(heap, {requests[k] : k \in DOMAIN requests})
  /\ dropped' = dropped \o Nums(requests)
  /\ requests' = <<>>
  /\ exit_code' = Some(SUCCESS_EXIT)
  /\ pc' = "done"
  /\ UNCHANGED <<args, matches, num_iterations, buffer_size, stdout, stderr,
                 request, i, allocs>>

Next ==
  \/ Line23
  \/ Line28
  \/ Line32
  \/ Line36
  \/ Line38
  \/ Line39
  \/ Line40
  \/ Line41
  \/ Line44
  \/ Line45
  \/ Line46
  \/ Line47
  \/ Line48

Spec == Init /\ [][Next]_vars

\* the runs whose argument list the option parser accepts
InitAccepted == Init /\ opts_parse(user_args(args)).tag = "Ok"

\* main is one sequential thread: a statement that can run does run
FairSpec == InitAccepted /\ [][Next]_vars /\ WF_vars(Next)

----------------------------------------------------------------------------
(* Vocabulary of the properties *)

Max(a, b) == IF a > b THEN a ELSE b

\* the phases of the run after the options parsed and the line was printed
Filling == pc \in {"l39", "l40", "l41"}

Churning == pc \in {"l44", "l45", "l46", "l47"}

Finished == pc \in {"l48", "done"}

\* both options parsed: num_iterations and buffer_size hold integers
Parsed == pc \in {"l36", "l38"} \/ Filling \/ Churning \/ Finished

\* between two churn iterations: before the first, or after the i-th
BetweenIterations == pc \in {"l44", "l48"}

\* where the queue exists
QueuePcs == {"l39", "l40", "l41", "l44", "l45", "l46", "l47", "l48"}

\* 0, 1, ..., n-1
UpTo(n) == [k \in 1..n |-> k - 1]

\* the number of queue slots holding the address a
Slots(a) == Cardinality({k \in DOMAIN requests : requests[k] = a})

\* 1 when the local request holds the address a
Held(a) == IF request.tag = "Some" /\ request.val = a THEN 1 ELSE 0

----------------------------------------------------------------------------
(* C1 *)

\* C1: while the fill loop runs the queue holds the Requests 0, 1, ..., i-1
\* head to tail, i the number of fill steps completed, and nothing has been
\* destroyed; when the loop has finished and no churn iteration has begun
\* (buffer_size >= 0) the queue holds exactly buffer_size Requests with num
\* 0 .. buffer_size - 1 in insertion order.
C1_FillInOrder ==
  /\ Filling =>
       /\ Nums(requests) = UpTo(i)
       /\ i <= Max(buffer_size, 0)
       /\ dropped = <<>>
       /\ Cardinality(Live) = allocs
       /\ allocs = i + (IF pc = "l41" THEN 1 ELSE 0)
  /\ (pc = "l44" /\ i = 0 /\ buffer_size >= 0) =>
       /\ Len(requests) = buffer_size
       /\ Nums(requests) = UpTo(buffer_size)
       /\ dropped = <<>>

C1_Witness ==
  /\ pc = "l44" /\ i = 0
  /\ buffer_size = 3
  /\ Nums(requests) = <<0, 1, 2>>

----------------------------------------------------------------------------
(* C2 *)

\* C2: with buffer_size > 0 the queue holds exactly buffer_size Requests
\* before the first and after every churn iteration, and so when the loop
\* has finished; inside an iteration the pop has removed exactly one Request
\* (buffer_size - 1 are left, the local holds the one removed) and the push
\* has appended exactly one (buffer_size again).
C2_ChurnKeepsLength ==
  (Parsed /\ buffer_size > 0) =>
    /\ (pc \in {"l44", "l45", "l47", "l48"}) => Len(requests) = buffer_size
    /\ pc = "l46" => (Len(requests) = buffer_size - 1 /\ request.tag = "Some")
    /\ pc = "l47" => request.tag = "Some"

C2_Witness ==
  /\ pc = "l48"
  /\ buffer_size = 2 /\ num_iterations = 3 /\ i = 3
  /\ Len(requests) = 2

----------------------------------------------------------------------------
(* C3 *)

Min(a, b) == IF a < b THEN a ELSE b

\* C3 as stated: with buffer_size = 0 no pop of the churn loop ever removes
\* a Request, the queue holds k Requests after k iterations and
\* num_iterations when the loop has finished.
C3_Original ==
  (Parsed /\ buffer_size = 0) =>
    /\ BetweenIterations => Len(requests) = i
    /\ pc \in {"l46", "l47"} => request.tag = "None"
    /\ (pc = "l48" /\ num_iterations >= 0) => Len(requests) = num_iterations

\* C3, amended: with buffer_size = 0 only the pop of the first churn
\* iteration finds the queue empty; every later pop removes the Request the
\* iteration before appended.  After k iterations the queue holds min(k, 1)
\* Requests (the one with num k-1), the Requests 0 .. k-2 have been
\* destroyed in that order, and the finished loop leaves
\* min(num_iterations, 1) Requests (num_iterations >= 0).
C3_EmptyBufferHoldsOne ==
  (Parsed /\ buffer_size = 0) =>
    /\ BetweenIterations =>
         /\ Len(requests) = Min(i, 1)
         /\ Nums(requests) = (IF i = 0 THEN <<>> ELSE <<i - 1>>)
         /\ dropped = UpTo(Max(i - 1, 0))
    /\ pc \in {"l46", "l47"} => (request.tag = "None" <=> i = 0)
    /\ pc = "l46" => requests = <<>>
    /\ pc = "l47" => Nums(requests) = <<i>>
    /\ (pc = "l48" /\ num_iterations >= 0) =>
         Len(requests) = Min(num_iterations, 1)

C3_Witness ==
  /\ pc = "l48"
  /\ buffer_size = 0 /\ num_iterations = 3
  /\ Nums(requests) = <<2>>
  /\ dropped = <<0, 1>>

----------------------------------------------------------------------------
(* C4 *)

\* no token of the argument list names the option nm (-nm or -nm<value>)
Absent(nm) ==
  \A k \in 2..Len(args) : ~(Len(args[k]) >= 2 /\ args[k][1] = "-" /\ args[k][2] = nm)

\* C4: when -i or -b is absent from the argument list the run goes from the
\* option parser straight to the panic: it ends with the nonzero panic
\* status, nothing is ever written to standard output, no Request is
\* constructed and no queue exists.
C4_MissingOptionPanics ==
  (Absent("i") \/ Absent("b")) =>
    /\ pc \in {"l23", "panicked"}
    /\ pc = "panicked" =>
         (exit_code = Some(PANIC_EXIT) /\ PANIC_EXIT # SUCCESS_EXIT /\ Len(stderr) = 1)
    /\ stdout = <<>>
    /\ allocs = 0 /\ heap = <<>>
    /\ requests = <<>> /\ request.tag = "None"

C4_Witness ==
  /\ pc = "panicked"
  /\ args = <<ProgramName, <<"-", "i">>, <<"3">>>>
  /\ Absent("b") /\ ~Absent("i")
  /\ stderr = <<"OptionMissing">>
  /\ stdout = <<>>

----------------------------------------------------------------------------
(* C5 *)

RECURSIVE strip_zeros(_)
strip_zeros(d) ==
  IF Len(d) > 1 /\ Head(d) = "0" THEN strip_zeros(Tail(d)) ELSE d

RECURSIVE numeral_leq(_, _)
\* a <= b for two digit strings of the same length
numeral_leq(a, b) ==
  IF a = <<>> THEN TRUE
  ELSE IF DigitValue(Head(a)) < DigitValue(Head(b)) THEN TRUE
  ELSE IF DigitValue(Head(a)) > DigitValue(Head(b)) THEN FALSE
  ELSE numeral_leq(Tail(a), Tail(b))

\* the numeral of i32::MAX
I32MaxText == <<"2", "1", "4", "7", "4", "8", "3", "6", "4", "7">>

\* the text s denotes a 32-bit signed integer: an optional minus sign, then
\* one or more decimal digits whose value lies in -2147483648 .. 2147483647
\* (decided on the text, by length and digit order)
DenotesI32(s) ==
  LET neg == s # <<>> /\ Head(s) = "-"
      body == IF neg THEN Tail(s) ELSE s
      d == strip_zeros(body)
      limit == IF neg THEN AboveI32 ELSE I32MaxText
  IN /\ body # <<>>
     /\ \A k \in 1..Len(body) : IsDigit(body[k])
     /\ \/ Len(d) < Len(limit)
        \/ Len(d) = Len(limit) /\ numeral_leq(d, limit)

\* the options parsed (both present, each once) and the text of one of them
\* is no 32-bit signed integer
BadValue ==
  /\ matches.tag = "Some"
  /\ \E nm \in OptNames : ~DenotesI32(opt_str(matches.val, nm).val)

\* C5: when both options are present and the text of -i or of -b is no
\* 32-bit signed integer, the run never gets past the two conversions: it
\* panics there with the nonzero panic status, nothing is written to
\* standard output and no Request or queue is ever made, whatever the other
\* option's value.
C5_BadValuePanics ==
  BadValue =>
    /\ pc \in {"l28", "l32", "panicked"}
    /\ pc = "panicked" =>
         (exit_code = Some(PANIC_EXIT) /\ PANIC_EXIT # SUCCESS_EXIT /\ Len(stderr) = 1)
    /\ stdout = <<>>
    /\ allocs = 0 /\ heap = <<>>
    /\ requests = <<>> /\ request.tag = "None"

\* -i is valid and converted, -b is out of the i32 range
C5_Witness ==
  /\ pc = "panicked"
  /\ args = <<ProgramName, <<"-", "i">>, <<"3">>, <<"-", "b">>, AboveI32>>
  /\ BadValue
  /\ num_iterations = 3
  /\ stderr = <<"Overflow">>
  /\ stdout = <<>>

----------------------------------------------------------------------------
(* C6 *)

\* the line the claim describes: num_iterations=<i>, buffer_size=<b>
ClaimedStatusLine ==
  <<"n", "u", "m", "_", "i", "t", "e", "r", "a", "t", "i", "o", "n", "s", "=">>
    \o fmt_i32(num_iterations)
    \o <<",", " ", "b", "u", "f", "f", "e", "r", "_", "s", "i", "z", "e", "=">>
    \o fmt_i32(buffer_size)

\* C6: once both options have parsed, standard output receives exactly one
\* line, num_iterations=<i>, buffer_size=<b> with the integers as parsed,
\* and it is written before any Request is constructed or queued.
C6_StatusLine ==
  /\ pc \in {"l23", "l28", "l32", "l36"} =>
       (stdout = <<>> /\ allocs = 0 /\ requests = <<>>)
  /\ (Parsed /\ pc # "l36") => stdout = <<ClaimedStatusLine>>

----------------------------------------------------------------------------
(* C7 *)

\* C7: a negative buffer_size fills nothing (the queue is empty after the
\* fill), a negative num_iterations never enters the churn body, and in both
\* cases the run does not stop before main has returned with the success
\* status.
C7_NegativeCounts ==
  /\ (Parsed /\ buffer_size < 0) =>
       /\ pc \notin {"l40", "l41"}
       /\ (pc = "l44" /\ i = 0) => (requests = <<>> /\ allocs = 0)
  /\ (Parsed /\ num_iterations < 0) =>
       /\ pc \notin {"l45", "l46", "l47"}
       /\ pc \in {"l44", "l48"} =>
            /\ Len(requests) = Max(buffer_size, 0)
            /\ allocs = Max(buffer_size, 0)
            /\ dropped = <<>>
  /\ (Parsed /\ (num_iterations < 0 \/ buffer_size < 0)) =>
       /\ pc \in QueuePcs => i \in 0..Max(Max(num_iterations, buffer_size), 0)
       /\ IF pc = "done" THEN exit_code = Some(SUCCESS_EXIT) ELSE ENABLED Next

C7_Witness ==
  /\ pc = "done"
  /\ num_iterations = I32_MIN /\ buffer_size = -1
  /\ allocs = 0
  /\ exit_code = Some(SUCCESS_EXIT)

----------------------------------------------------------------------------
(* C8 *)

\* 0 while the options are parsed and the line is printed, then the three
\* phases; 4 is the panic
Phase(at) ==
  IF at \in {"l39", "l40", "l41"} THEN 1
  ELSE IF at \in {"l44", "l45", "l46", "l47"} THEN 2
  ELSE IF at \in {"l48", "done"} THEN 3
  ELSE IF at = "panicked" THEN 4
  ELSE 0

\* the counts C8 states, as a property of every state
C8_Counts ==
  IF ~Parsed THEN TRUE ELSE
    /\ Filling => (allocs = i + (IF pc = "l41" THEN 1 ELSE 0)
                   /\ i <= Max(buffer_size, 0))
    /\ Churning => (allocs = Max(buffer_size, 0) + i + (IF pc = "l47" THEN 1 ELSE 0)
                    /\ i <= Max(num_iterations, 0))
    /\ Finished => allocs = Max(buffer_size, 0) + Max(num_iterations, 0)
    /\ pc = "l48" => i = Max(num_iterations, 0)
    /\ pc # "l36" => Len(stdout) = 1
    /\ stderr = <<>>
    /\ pc = "done" => exit_code = Some(SUCCESS_EXIT)
    /\ (pc = "l48" /\ num_iterations = 0 /\ buffer_size = 0) =>
         (requests = <<>> /\ allocs = 0)

\* a step after the options parsed stays in its phase or enters the next
C8_PhaseStep ==
  IF Parsed THEN Phase(pc') \in {Phase(pc), Phase(pc) + 1} ELSE TRUE

C8_Parsed == IF Parsed THEN TRUE ELSE FALSE

C8_Done == IF pc = "done" THEN exit_code = Some(SUCCESS_EXIT) ELSE FALSE

\* C8: once both options parsed the run passes through Filling, Churning
\* and Done in that order and always reaches Done, after exactly
\* max(buffer_size, 0) fill steps and then exactly max(num_iterations, 0)
\* churn repetitions, with the status line the only output and the success
\* status at the end.
C8_RunsToDone ==
  /\ []C8_Counts
  /\ [][C8_PhaseStep]_vars
  /\ C8_Parsed ~> C8_Done

C8_Witness ==
  /\ pc = "done"
  /\ num_iterations = 3 /\ buffer_size = 2
  /\ allocs = 5
  /\ Len(stdout) = 1
  /\ exit_code = Some(SUCCESS_EXIT)

----------------------------------------------------------------------------
(* C9 *)

\* the num values in creation order: 0 .. buffer_size-1 of the fill, then
\* 0 .. num_iterations-1 of the churn
CreationOrder == UpTo(Max(buffer_size, 0)) \o UpTo(Max(num_iterations, 0))

\* C9: with buffer_size > 0, after k churn iterations the Requests destroyed
\* are the first k of the creation order, in that order, and the queue holds
\* the next buffer_size of it, head to tail.
C9_FifoTurnover ==
  (Parsed /\ buffer_size > 0 /\ BetweenIterations) =>
    /\ dropped = SubSeq(CreationOrder, 1, i)
    /\ Nums(requests) = SubSeq(CreationOrder, i + 1, i + buffer_size)

\* -i 3 -b 2: the finished loop leaves num = 1, 2
C9_Witness ==
  /\ pc = "l48"
  /\ num_iterations = 3 /\ buffer_size = 2
  /\ dropped = <<0, 1, 0>>
  /\ Nums(requests) = <<1, 2>>

----------------------------------------------------------------------------
(* C10 *)

\* C10 as stated, for the churn loop: every live Request is held by exactly
\* one queue slot (the one dequeued is destroyed at once, so it is never
\* alive beside its replacement), and with buffer_size > 0 no more than
\* buffer_size Requests are alive.
C10_Original ==
  (Churning \/ pc = "l48") =>
    /\ \A a \in Live : Slots(a) = 1
    /\ buffer_size > 0 => Cardinality(Live) <= buffer_size

\* C10, amended: every live Request has exactly one owner, a queue slot or
\* the local request of the loop body, and no owner holds a destroyed one.
\* The Request a churn iteration dequeues stays alive in the local while the
\* replacement is constructed and appended and is destroyed at the end of
\* the body: between iterations all live Requests are in the queue, and
\* with buffer_size > 0 at most buffer_size + 1 Requests are alive, which is
\* reached in every iteration.  After main returns none is alive.
C10_Ownership ==
  /\ \A a \in Live : Slots(a) + Held(a) = 1
  /\ request.tag = "Some" => request.val \in Live
  /\ \A k \in DOMAIN requests : requests[k] \in Live
  /\ pc \in {"l46", "l47"} /\ buffer_size > 0 =>
       (request.tag = "Some" /\ request.val \in Live)
  /\ pc = "l47" /\ buffer_size > 0 =>
       (requests[Len(requests)] = allocs /\ Cardinality(Live) = buffer_size + 1)
  /\ BetweenIterations =>
       (request.tag = "None" /\ Cardinality(Live) = Len(requests))
  /\ (Parsed /\ buffer_size > 0) => Cardinality(Live) <= buffer_size + 1
  /\ pc = "done" => Live = {}

C10_Witness ==
  /\ pc = "l47"
  /\ buffer_size = 2 /\ i = 1
  /\ request.tag = "Some" /\ request.val \in Live
  /\ requests[Len(requests)] = allocs
  /\ Cardinality(Live) = 3

====
